---- MODULE Spec2Model ----
(***************************************************************************)
(* The FMCSA snapshot-reconciliation scripts as a state machine.           *)
(*                                                                         *)
(*   fmcsa_in_review_scraper.py  kind "InReview", identity USDOTNumber     *)
(*   fmcsa_removed_scraper.py    kind "Removed",  identity ProviderNumber  *)
(*   dashboard.py                the transfer join over both master files  *)
(*                                                                         *)
(* A field value is an integer: ABSENT is a key the dict does not hold     *)
(* (dict.get gives None), EMPTY is the empty string, every positive number *)
(* stands for a non-empty string. A timestamp string "YYYY-MM-DD" is the   *)
(* number YYYYMMDD.                                                        *)
(***************************************************************************)
EXTENDS Integers, Sequences, FiniteSets, Bags, TLC

\* ---------------------------------------------------------------- bounds
MaxRuns == 2        \* script runs in one behaviour
MaxPages == 2       \* pages of the largest remote dataset
MaxSnap == 2        \* records of a hand-made remote dataset
MaxMergeRuns == 2   \* script runs in one behaviour of the merge specification
MaxLoads == 2       \* loads of the dashboard module in one behaviour
MaxConcRuns == 3    \* script runs in one behaviour of the concurrent specification

\* ------------------------------------------------------ program constants
PAGE_SIZE == 100
FIRST_LENGTH == 10
MAX_RETRIES == 5
ABSENT == -1
EMPTY == 0
NAT == 999999       \* the string "NaT", which is no year-month

Kinds == {"InReview", "Removed"}
Fields == {"USDOTNumber", "ProviderNumber", "UpdatedOn", "PhysicalState", "ZipCode"}

KeyField(k) == IF k = "InReview" THEN "USDOTNumber" ELSE "ProviderNumber"

Min(a, b) == IF a < b THEN a ELSE b
Max(a, b) == IF a < b THEN b ELSE a

\* A variant that takes the empty string for an identity.
Truthy_NotNone(v) == v # ABSENT

\* `if r.get(key)`: a missing key (None) and "" are both falsy.
Truthy(v) == v # ABSENT /\ v # EMPTY

\* ------------------------------------------------------------ remote API
\* The DataTables endpoint: the envelope for the window [start, start+length)
\* of a dataset served in a stable order.
RemotePage(ds, start, length) ==
    [recordsTotal |-> Len(ds),
     data |-> SubSeq(ds, start + 1, Min(start + length, Len(ds)))]

\* ------------------------------------------------------------- CSV files
NoFile == [exists |-> FALSE, rows |-> << >>, version |-> 0]

\* fieldnames = sorted({k for row in rows for k in row.keys()})
Fieldnames(rows) ==
    {f \in Fields : \E i \in 1..Len(rows) : rows[i][f] # ABSENT}

\* csv.DictWriter: one line per row, a column per fieldname, a key the row
\* lacks written as the empty string. Read back by csv.DictReader, a row holds
\* exactly the header's columns, each a string.
CsvRows(rows) ==
    [i \in 1..Len(rows) |->
        [f \in Fields |->
            IF f \in Fieldnames(rows) /\ rows[i][f] = ABSENT
            THEN EMPTY ELSE rows[i][f]]]

\* open(path, "w") and the writer's calls: the file is replaced.
WriteFile(file, rows) ==
    [exists |-> TRUE, rows |-> CsvRows(rows), version |-> file.version + 1]

\* in-review: save_csv returns early on no rows.
save_csv(rows, file) == IF rows = << >> THEN file ELSE WriteFile(file, rows)

\* removed: save_to_csv always opens the file for writing.
save_to_csv(rows, file) == WriteFile(file, rows)

SaveRows(k, rows, file) ==
    IF k = "InReview" THEN save_csv(rows, file) ELSE save_to_csv(rows, file)

\* if os.path.exists(master): list(csv.DictReader(f)), else []
LoadRows(file) == IF file.exists THEN file.rows ELSE << >>

\* ---------------------------------------------------------------- state
VARIABLES
    pc,           \* per kind: where the script's main() stands
    remote,       \* per kind: the dataset the service holds during the run
    total_pages,  \* per kind: math.ceil(total_records / PAGE_SIZE)
    all_rows,     \* per kind: the rows accumulated by the run
    page,         \* per kind: the loop variable of the page loop
    tries,        \* per kind: failed attempts of the page being fetched
    lastStatus,   \* per kind: status of the latest HTTP response (0: none/transport)
    streak500,    \* per kind: 500 answers in a row up to the latest response
    okAfter,      \* per kind: 500 answers in a row right before the latest success
    requests,     \* per kind: offsets of the successful page requests of the run
    master_read,  \* per kind: master_rows as main() read it from the master file
    err,          \* per kind: why the run failed
    added,        \* per kind: the addition count the run reports
    snapshot,     \* per kind: the dated snapshot file
    master,       \* per kind: the master file
    lastSnap,     \* per kind: the rows the latest completed run reconciled
    repeated,     \* per kind: the run is served what the run before it reconciled
    startVer,     \* per kind: <<snapshot version, master version>> at run start
    runs,         \* runs started so far
    dash,         \* dashboard: "none", "ok" (module loaded) or "error" (it raised)
    df_in,        \* dashboard: the in-review frame it shows
    df_rm,        \* dashboard: the removed frame it shows, with TransferMonth
    loaded,       \* dashboard: <<in-review rows, removed rows>> as read from the files
    loads,        \* dashboard: times the module was loaded
    reloaded      \* dashboard: the load read what the load before it read

vars == <<pc, remote, total_pages, all_rows, page, tries, lastStatus, streak500, okAfter,
          requests, master_read, err, added, snapshot, master, lastSnap,
          repeated, startVer, runs, dash, df_in, df_rm, loaded, loads, reloaded>>

dashVars == <<dash, df_in, df_rm, loaded, loads, reloaded>>

fetchVars == <<total_pages, page, tries, lastStatus, streak500, okAfter, requests>>

Init ==
    /\ pc = [k \in Kinds |-> "idle"]
    /\ remote = [k \in Kinds |-> << >>]
    /\ total_pages = [k \in Kinds |-> 0]
    /\ all_rows = [k \in Kinds |-> << >>]
    /\ page = [k \in Kinds |-> 0]
    /\ tries = [k \in Kinds |-> 0]
    /\ lastStatus = [k \in Kinds |-> 0]
    /\ streak500 = [k \in Kinds |-> 0]
    /\ okAfter = [k \in Kinds |-> 0]
    /\ requests = [k \in Kinds |-> << >>]
    /\ master_read = [k \in Kinds |-> << >>]
    /\ err = [k \in Kinds |-> "none"]
    /\ added = [k \in Kinds |-> 0]
    /\ snapshot = [k \in Kinds |-> NoFile]
    /\ master = [k \in Kinds |-> NoFile]
    /\ lastSnap = [k \in Kinds |-> << >>]
    /\ repeated = [k \in Kinds |-> FALSE]
    /\ startVer = [k \in Kinds |-> <<0, 0>>]
    /\ runs = 0
    /\ dash = "none"
    /\ df_in = << >>
    /\ df_rm = << >>
    /\ loaded = << << >>, << >> >>
    /\ loads = 0
    /\ reloaded = FALSE

Running(k) == pc[k] \notin {"idle", "done", "failed"}
NoneRunning == \A j \in Kinds : ~Running(j)
OthersIdle(k) == \A j \in Kinds \ {k} : pc[j] = "idle"

\* ------------------------------------------------------------- run start
\* The script is started: module-level setup, then main(). ds is what the
\* remote service holds for the whole run (no remote mutation).
Start(k, ds) ==
    /\ ~Running(k)
    /\ runs' = runs + 1
    /\ pc' = [pc EXCEPT ![k] = "token"]
    /\ remote' = [remote EXCEPT ![k] = ds]
    /\ total_pages' = [total_pages EXCEPT ![k] = 0]
    /\ all_rows' = [all_rows EXCEPT ![k] = << >>]
    /\ page' = [page EXCEPT ![k] = 0]
    /\ tries' = [tries EXCEPT ![k] = 0]
    /\ lastStatus' = [lastStatus EXCEPT ![k] = 0]
    /\ streak500' = [streak500 EXCEPT ![k] = 0]
    /\ okAfter' = [okAfter EXCEPT ![k] = 0]
    /\ requests' = [requests EXCEPT ![k] = << >>]
    /\ master_read' = [master_read EXCEPT ![k] = << >>]
    /\ err' = [err EXCEPT ![k] = "none"]
    /\ added' = [added EXCEPT ![k] = 0]
    /\ startVer' = [startVer EXCEPT ![k] = <<snapshot[k].version, master[k].version>>]
    /\ repeated' = [repeated EXCEPT ![k] = (pc[k] = "done" /\ ds = lastSnap[k])]
    /\ UNCHANGED <<snapshot, master, lastSnap>>
    /\ UNCHANGED dashVars

\* The script is started again while the service still holds what the run
\* before fetched.
Rerun(k) == pc[k] = "done" /\ Start(k, lastSnap[k])

\* The process is over: what main() held in memory is gone. page, tries and
\* lastStatus stay as the record of where the run ended.
Forget(k) ==
    /\ remote' = [remote EXCEPT ![k] = << >>]
    /\ all_rows' = [all_rows EXCEPT ![k] = << >>]
    /\ total_pages' = [total_pages EXCEPT ![k] = 0]
    /\ streak500' = [streak500 EXCEPT ![k] = 0]
    /\ okAfter' = [okAfter EXCEPT ![k] = 0]
    /\ requests' = [requests EXCEPT ![k] = << >>]
    /\ master_read' = [master_read EXCEPT ![k] = << >>]

\* A variant that saves what was fetched before it gives up.
Raise_SavePartial(k, e) ==
    /\ pc' = [pc EXCEPT ![k] = "failed"]
    /\ err' = [err EXCEPT ![k] = e]
    /\ snapshot' = [snapshot EXCEPT ![k] = SaveRows(k, all_rows[k], @)]
    /\ UNCHANGED master

\* An exception nobody catches ends the process: nothing is written.
Raise(k, e) ==
    /\ pc' = [pc EXCEPT ![k] = "failed"]
    /\ err' = [err EXCEPT ![k] = e]
    /\ UNCHANGED <<snapshot, master>>

\* ------------------------------------------------- get_verification_token
TokenOk(k) ==
    /\ pc[k] = "token"
    /\ pc' = [pc EXCEPT ![k] = "first"]
    /\ UNCHANGED master_read
    /\ UNCHANGED <<remote, all_rows, err, added, snapshot, master, lastSnap, repeated,
                   startVer, runs>>
    /\ UNCHANGED fetchVars
    /\ UNCHANGED dashVars

\* r.raise_for_status() or the GET itself raises.
TokenHttpError(k) ==
    /\ pc[k] = "token"
    /\ Raise(k, "TokenHttpError")
    /\ Forget(k)
    /\ UNCHANGED <<page, tries, lastStatus, added, lastSnap, repeated, startVer, runs>>
    /\ UNCHANGED dashVars

\* A variant that asks for the first page before it looks for the token.
TokenMissing_Late(k) ==
    /\ pc[k] = "token"
    /\ Raise(k, "TokenNotFound")
    /\ Forget(k)
    /\ lastStatus' = [lastStatus EXCEPT ![k] = 200]
    /\ UNCHANGED <<page, tries, added, lastSnap, repeated, startVer, runs>>
    /\ UNCHANGED dashVars

\* The page holds no input named __RequestVerificationToken.
TokenMissing(k) ==
    /\ pc[k] = "token"
    /\ Raise(k, "TokenNotFound")
    /\ Forget(k)
    /\ UNCHANGED <<page, tries, lastStatus, added, lastSnap, repeated, startVer, runs>>
    /\ UNCHANGED dashVars

\* ------------------------------------------------------------ fetch_page
ReqStart(k) == IF pc[k] = "first" THEN 0 ELSE page[k] * PAGE_SIZE
ReqLength(k) == IF pc[k] = "first" THEN FIRST_LENGTH ELSE PAGE_SIZE

\* A variant that counts a page too many.
TotalPages_OneMore(total_records) == (total_records \div PAGE_SIZE) + 1

\* A variant that rounds down.
TotalPages_Floor(total_records) == total_records \div PAGE_SIZE

\* math.ceil(total_records / PAGE_SIZE)
TotalPages(total_records) == (total_records + PAGE_SIZE - 1) \div PAGE_SIZE

\* A variant whose loop runs once more.
LoopExhausted_OneMore(failed) == failed > MAX_RETRIES

\* for attempt in range(1, MAX_RETRIES + 1): the loop is over once `failed`
\* attempts have failed.
LoopExhausted(failed) == failed >= MAX_RETRIES

\* One attempt that returns r.json(): fetch_page returns, and main() takes
\* the envelope (first page) or extends all_rows (later pages).
FetchOk(k) ==
    /\ pc[k] \in {"first", "pages"}
    /\ LET resp == RemotePage(remote[k], ReqStart(k), ReqLength(k))
           tp == IF pc[k] = "first" THEN TotalPages(resp.recordsTotal)
                 ELSE total_pages[k]
           nxt == IF pc[k] = "first" THEN 1 ELSE page[k] + 1
       IN /\ all_rows' = [all_rows EXCEPT ![k] =
                            IF pc[k] = "first" THEN resp.data ELSE @ \o resp.data]
          /\ total_pages' = [total_pages EXCEPT ![k] = tp]
          /\ page' = [page EXCEPT ![k] = nxt]
          /\ pc' = [pc EXCEPT ![k] = IF nxt < tp THEN "pages" ELSE "fetched"]
    /\ requests' = [requests EXCEPT ![k] = Append(@, ReqStart(k))]
    /\ UNCHANGED master_read
    /\ okAfter' = [okAfter EXCEPT ![k] = streak500[k]]
    /\ streak500' = [streak500 EXCEPT ![k] = 0]
    /\ tries' = [tries EXCEPT ![k] = 0]
    /\ lastStatus' = [lastStatus EXCEPT ![k] = 200]
    /\ UNCHANGED <<remote, err, added, snapshot, master, lastSnap, repeated, startVer, runs>>
    /\ UNCHANGED dashVars

\* One attempt that does not return: the loop goes on to the next attempt, or
\* ends and fetch_page raises RuntimeError, which main() does not catch.
FailedAttempt(k, status) ==
    /\ pc[k] \in {"first", "pages"}
    /\ tries' = [tries EXCEPT ![k] = @ + 1]
    /\ lastStatus' = [lastStatus EXCEPT ![k] = status]
    /\ IF LoopExhausted(tries[k] + 1)
       THEN /\ Raise(k, "FetchExhausted")
            /\ Forget(k)
       ELSE /\ streak500' = [streak500 EXCEPT ![k] = IF status = 500 THEN @ + 1 ELSE 0]
            /\ okAfter' = [okAfter EXCEPT ![k] = 0]
            /\ UNCHANGED <<pc, err, remote, all_rows, total_pages, requests,
                           master_read, snapshot, master>>
    /\ UNCHANGED <<page, added, lastSnap, repeated, startVer, runs>>
    /\ UNCHANGED dashVars

\* if r.status_code == 500: sleep, continue
Fetch500(k) == FailedAttempt(k, 500)

\* r.raise_for_status() raises HTTPError, a RequestException: the except
\* clause prints, sleeps and the loop goes on.
FetchHttpError(k) == FailedAttempt(k, 404)

\* session.post raises (timeout, connection error): the same except clause.
FetchTransportError(k) == FailedAttempt(k, 0)

\* ------------------------------------------------------- snapshot, master
\* The files are named by path: SNAPSHOT_CSV / MASTER_CSV of the in-review
\* script, snapshot_csv / master_csv of the removed script. TODAY is the
\* capture date, one and the same for the runs of a behaviour.
SnapshotPath(k) ==
    IF k = "InReview" THEN "outputs/fmcsa_in_review_TODAY.csv"
    ELSE "outputs/fmcsa_removed_TODAY.csv"

\* A variant in which both scripts name one master file.
MasterPath_Shared(k) == "outputs/master_fmcsa.csv"

MasterPath(k) ==
    IF k = "InReview" THEN "outputs/master_fmcsa_in_review.csv"
    ELSE "outputs/master_fmcsa_removed.csv"

\* files, after the script of kind k has left `file` at its path: every kind
\* that names the same path sees it.
Stored(files, paths, k, file) ==
    [j \in Kinds |-> IF paths[j] = paths[k] THEN file ELSE files[j]]

SnapshotPaths == [j \in Kinds |-> SnapshotPath(j)]
MasterPaths == [j \in Kinds |-> MasterPath(j)]

\* save_csv(all_rows, SNAPSHOT_CSV) / save_to_csv(all_rows, snapshot_csv)
SaveSnapshot(k) ==
    /\ pc[k] = "fetched"
    /\ snapshot' = Stored(snapshot, SnapshotPaths, k, SaveRows(k, all_rows[k], snapshot[k]))
    /\ pc' = [pc EXCEPT ![k] = "reconcile"]
    /\ UNCHANGED master_read
    /\ UNCHANGED <<remote, all_rows, err, added, master, lastSnap, repeated, startVer, runs>>
    /\ UNCHANGED fetchVars
    /\ UNCHANGED dashVars

\* A variant that takes no identity from the loaded rows.
ExistingIds_None(k, master_rows) == {}

\* existing_ids = {r.get(key) for r in master_rows if r.get(key)}
ExistingIds(k, master_rows) ==
    {master_rows[i][KeyField(k)] : i \in {j \in 1..Len(master_rows) :
                                            Truthy(master_rows[j][KeyField(k)])}}

\* The rows of the snapshot with a key that existing_ids does not hold;
\* existing_ids is not extended while the rows are gone through.
NewRows(k, rows, ids) ==
    LET keep(r) == Truthy(r[KeyField(k)]) /\ r[KeyField(k)] \notin ids
    IN SelectSeq(rows, keep)

\* A variant that writes the new rows alone.
MasterAfter_OnlyNew(k, file, master_rows, new_rows) ==
    IF k = "InReview"
    THEN IF new_rows # << >> THEN save_csv(new_rows, file) ELSE file
    ELSE save_to_csv(new_rows, file)

\* What main() leaves in the master file.
MasterAfter(k, file, master_rows, new_rows) ==
    IF k = "InReview"
    THEN IF new_rows # << >> THEN save_csv(master_rows \o new_rows, file) ELSE file
    ELSE save_to_csv(master_rows \o new_rows, file)

UpdateMaster(k) ==
    /\ pc[k] = "reconcile"
    /\ LET rows_read == LoadRows(master[k])
           new_rows == NewRows(k, all_rows[k], ExistingIds(k, rows_read))
       IN /\ master' = Stored(master, MasterPaths, k,
                                MasterAfter(k, master[k], rows_read, new_rows))
          /\ added' = [added EXCEPT ![k] = Len(new_rows)]
    /\ lastSnap' = [lastSnap EXCEPT ![k] = all_rows[k]]
    /\ pc' = [pc EXCEPT ![k] = "done"]
    /\ Forget(k)
    /\ UNCHANGED <<page, tries, lastStatus, err, snapshot, repeated, startVer, runs>>
    /\ UNCHANGED dashVars

\* ------------------------------------------- master update, step by step
\* main(): master_rows = list(csv.DictReader(f)) if the file exists, else [].
LoadMaster(k) ==
    /\ pc[k] = "reconcile"
    /\ master_read' = [master_read EXCEPT ![k] = LoadRows(master[k])]
    /\ pc' = [pc EXCEPT ![k] = "loaded"]
    /\ UNCHANGED <<remote, all_rows, err, added, snapshot, master, lastSnap, repeated,
                   startVer, runs>>
    /\ UNCHANGED fetchVars
    /\ UNCHANGED dashVars

\* main(): existing_ids, the new rows, and the save of what was read plus the
\* new rows, at the time the script comes to it.
WriteMaster(k) ==
    /\ pc[k] = "loaded"
    /\ LET new_rows == NewRows(k, all_rows[k], ExistingIds(k, master_read[k]))
       IN /\ master' = Stored(master, MasterPaths, k,
                                MasterAfter(k, master[k], master_read[k], new_rows))
          /\ added' = [added EXCEPT ![k] = Len(new_rows)]
    /\ lastSnap' = [lastSnap EXCEPT ![k] = all_rows[k]]
    /\ pc' = [pc EXCEPT ![k] = "done"]
    /\ Forget(k)
    /\ UNCHANGED <<page, tries, lastStatus, err, snapshot, repeated, startVer, runs>>
    /\ UNCHANGED dashVars

\* ---------------------------------------------------------- failed writes
\* open(path, "w") has emptied the file; the writer raises (OSError: disk full,
\* I/O error) after n of the rows: the file is left with what was written.
PartialWrite(file, rows, n) ==
    [exists |-> TRUE, rows |-> SubSeq(CsvRows(rows), 1, n), version |-> file.version + 1]

\* The snapshot write raises; main() catches nothing and the run is over.
\* save_csv opens no file for no rows.
SaveSnapshotFails(k) ==
    /\ pc[k] = "fetched"
    /\ k = "InReview" => all_rows[k] # << >>
    /\ \E n \in 0..(Len(all_rows[k]) - 1) :
          snapshot' = Stored(snapshot, SnapshotPaths, k,
                             PartialWrite(snapshot[k], all_rows[k], n))
    /\ pc' = [pc EXCEPT ![k] = "failed"]
    /\ err' = [err EXCEPT ![k] = "WriteFailed"]
    /\ Forget(k)
    /\ UNCHANGED <<master, page, tries, lastStatus, added, lastSnap, repeated,
                   startVer, runs>>
    /\ UNCHANGED dashVars

\* The master write raises.
UpdateMasterFails(k) ==
    /\ pc[k] = "reconcile"
    /\ LET rows_read == LoadRows(master[k])
           new_rows == NewRows(k, all_rows[k], ExistingIds(k, rows_read))
       IN /\ k = "InReview" => new_rows # << >>
          /\ \E n \in 0..(Len(rows_read \o new_rows) - 1) :
                master' = Stored(master, MasterPaths, k,
                                 PartialWrite(master[k], rows_read \o new_rows, n))
    /\ pc' = [pc EXCEPT ![k] = "failed"]
    /\ err' = [err EXCEPT ![k] = "WriteFailed"]
    /\ Forget(k)
    /\ UNCHANGED <<snapshot, page, tries, lastStatus, added, lastSnap, repeated,
                   startVer, runs>>
    /\ UNCHANGED dashVars

\* ------------------------------------------------------------- dashboard
\* pd.read_csv raises when the file is missing (FileNotFoundError) or holds
\* no column (EmptyDataError).
Readable(file) == file.exists /\ Fieldnames(file.rows) # {}

\* merge(on="ProviderNumber") and sort_values(["PhysicalState", "ZipCode"])
\* raise KeyError on a frame without the column.
JoinColumns == {"ProviderNumber", "PhysicalState", "ZipCode"}

\* pd.read_csv(file, dtype=str): every cell a string, the empty cell NaN (EMPTY
\* here); then the UpdatedOn column is added, empty, to a frame without it.
ReadFrame(file) ==
    [i \in 1..Len(file.rows) |->
        [f \in Fields |->
            IF f = "UpdatedOn" /\ file.rows[i][f] = ABSENT
            THEN EMPTY ELSE file.rows[i][f]]]

DaysIn(y, m) ==
    IF m \in {4, 6, 9, 11} THEN 30
    ELSE IF m # 2 THEN 31
    ELSE IF (y % 4 = 0 /\ y % 100 # 0) \/ y % 400 = 0 THEN 29 ELSE 28

\* pd.to_datetime(errors="coerce") gives a date for a string that is one.
IsDate(v) ==
    /\ v > 0
    /\ (v \div 100) % 100 \in 1..12
    /\ v % 100 \in 1..DaysIn(v \div 10000, (v \div 100) % 100)

\* .dt.to_period("M").astype(str): "YYYY-MM" of a date, "NaT" of NaT.
TransferMonthOf(v) == IF IsDate(v) THEN v \div 100 ELSE NAT

RECURSIVE InnerMerge(_, _, _)
\* df_in.merge(df_rm, on="ProviderNumber", how="inner") with the TransferMonth
\* column, over in_rows[1..n]: a row per pair of rows with equal keys (NaN
\* equal to NaN), in the order of the left rows.
InnerMerge(in_rows, rm_rows, n) ==
    IF n = 0 THEN << >>
    ELSE LET hit(r) == r["ProviderNumber"] = in_rows[n]["ProviderNumber"]
             m == SelectSeq(rm_rows, hit)
         IN InnerMerge(in_rows, rm_rows, n - 1)
              \o [j \in 1..Len(m) |->
                    [ProviderNumber |-> in_rows[n]["ProviderNumber"],
                     TransferMonth |-> TransferMonthOf(m[j]["UpdatedOn"])]]

df_transfer(in_rows, rm_rows) == InnerMerge(in_rows, rm_rows, Len(in_rows))

WithMonth(row, month) ==
    [f \in Fields \cup {"TransferMonth"} |->
        IF f = "TransferMonth" THEN month ELSE row[f]]

RECURSIVE FirstMatch(_, _, _)
FirstMatch(rm_rows, transfer, n) ==
    IF n = 0 THEN << >>
    ELSE LET hit(t) == t.ProviderNumber = rm_rows[n]["ProviderNumber"]
             m == SelectSeq(transfer, hit)
         IN FirstMatch(rm_rows, transfer, n - 1)
              \o << WithMonth(rm_rows[n],
                              IF m = << >> THEN EMPTY ELSE m[1].TransferMonth) >>

\* A variant that looks the month up and takes the first match.
LeftMerge_FirstMatch(rm_rows, transfer) == FirstMatch(rm_rows, transfer, Len(rm_rows))

RECURSIVE LeftRows(_, _, _)
LeftRows(rm_rows, transfer, n) ==
    IF n = 0 THEN << >>
    ELSE LET hit(t) == t.ProviderNumber = rm_rows[n]["ProviderNumber"]
             m == SelectSeq(transfer, hit)
         IN LeftRows(rm_rows, transfer, n - 1)
              \o (IF m = << >>
                  THEN << WithMonth(rm_rows[n], EMPTY) >>
                  ELSE [j \in 1..Len(m) |-> WithMonth(rm_rows[n], m[j].TransferMonth)])

\* df_rm.merge(df_transfer[["ProviderNumber", "TransferMonth"]],
\*             on="ProviderNumber", how="left"): for every left row, in order,
\* a row per match, or one row with NaN when there is none.
LeftMerge(rm_rows, transfer) == LeftRows(rm_rows, transfer, Len(rm_rows))

\* sort_values(["PhysicalState", "ZipCode"]): ascending, NaN last, rows with
\* equal keys in the order they had.
ValLeq(a, b) == IF a = EMPTY THEN b = EMPTY ELSE (b = EMPTY \/ a <= b)
KeyLeq(x, y) ==
    IF x["PhysicalState"] = y["PhysicalState"]
    THEN ValLeq(x["ZipCode"], y["ZipCode"])
    ELSE ValLeq(x["PhysicalState"], y["PhysicalState"])

RECURSIVE SortedPrefix(_, _)
SortedPrefix(rows, n) ==
    IF n = 0 THEN << >>
    ELSE LET s == SortedPrefix(rows, n - 1)
             c == Cardinality({i \in 1..Len(s) : KeyLeq(s[i], rows[n])})
         IN SubSeq(s, 1, c) \o << rows[n] >> \o SubSeq(s, c + 1, Len(s))

sort_values(rows) == SortedPrefix(rows, Len(rows))

\* The removed frame the module ends up with.
RemovedFrame(in_rows, rm_rows) ==
    sort_values(LeftMerge(rm_rows, df_transfer(in_rows, rm_rows)))

\* The module-level code of dashboard.py up to the sort, run once. It reads the
\* two master files and writes no file.
Dashboard ==
    /\ loads' = loads + 1
    /\ LET fin == master["InReview"]
           frm == master["Removed"]
           ok == /\ Readable(fin) /\ Readable(frm)
                 /\ JoinColumns \subseteq Fieldnames(fin.rows)
                 /\ JoinColumns \subseteq Fieldnames(frm.rows)
       IN IF ok
          THEN /\ dash' = "ok"
               /\ reloaded' = (dash = "ok" /\ loaded = <<ReadFrame(fin), ReadFrame(frm)>>)
               /\ loaded' = <<ReadFrame(fin), ReadFrame(frm)>>
               /\ df_in' = sort_values(ReadFrame(fin))
               /\ df_rm' = RemovedFrame(ReadFrame(fin), ReadFrame(frm))
          ELSE /\ dash' = "error"
               /\ reloaded' = FALSE
               /\ loaded' = << << >>, << >> >>
               /\ df_in' = << >>
               /\ df_rm' = << >>
    /\ UNCHANGED <<pc, remote, all_rows, err, added, snapshot, master, lastSnap,
                   repeated, startVer, runs, master_read>>
    /\ UNCHANGED fetchVars

\* ------------------------------------------------------- remote datasets
\* A dataset whose record at offset i-1 is known by i alone.
PagedRecord(i) ==
    [USDOTNumber |-> i, ProviderNumber |-> i, UpdatedOn |-> 20240315,
     PhysicalState |-> 1, ZipCode |-> 1]
PagedDataset(n) == [i \in 1..n |-> PagedRecord(i)]

PagedSizes ==
    {0, 1, FIRST_LENGTH, FIRST_LENGTH + 1}
      \cup {p * PAGE_SIZE + d : p \in 1..(MaxPages - 1), d \in {0, 1}}

PagedDatasets == {PagedDataset(n) : n \in PagedSizes}

\* Hand-made records: two that share both identities and differ in the
\* timestamp, and one with other identities and no timestamp field.
MergeRecords ==
    {[USDOTNumber |-> 1, ProviderNumber |-> 1, UpdatedOn |-> 20240315,
      PhysicalState |-> 1, ZipCode |-> 1],
     [USDOTNumber |-> 1, ProviderNumber |-> 1, UpdatedOn |-> 20240420,
      PhysicalState |-> 1, ZipCode |-> 1],
     [USDOTNumber |-> 2, ProviderNumber |-> 2, UpdatedOn |-> ABSENT,
      PhysicalState |-> 1, ZipCode |-> 1]}

SeqsUpTo(S, n) == UNION {[1..m -> S] : m \in 0..n}

\* Hand-made records for the identity key: one with both identities, one
\* whose record has no identity field, one whose identity fields are "".
KeyRecords ==
    {[USDOTNumber |-> 1, ProviderNumber |-> 1, UpdatedOn |-> 20240315,
      PhysicalState |-> 1, ZipCode |-> 1],
     [USDOTNumber |-> ABSENT, ProviderNumber |-> ABSENT, UpdatedOn |-> 20240315,
      PhysicalState |-> 1, ZipCode |-> 2],
     [USDOTNumber |-> EMPTY, ProviderNumber |-> EMPTY, UpdatedOn |-> 20240420,
      PhysicalState |-> 2, ZipCode |-> 1]}

KeyDatasets == SeqsUpTo(KeyRecords, MaxSnap)

\* Hand-made datasets for the concurrent runs: none, one record, the same
\* identity at another time, and two identities.
ConcDatasets ==
    {<< >>,
     <<[USDOTNumber |-> 1, ProviderNumber |-> 1, UpdatedOn |-> 20240315,
        PhysicalState |-> 1, ZipCode |-> 1]>>,
     <<[USDOTNumber |-> 1, ProviderNumber |-> 1, UpdatedOn |-> 20240420,
        PhysicalState |-> 1, ZipCode |-> 1]>>,
     <<[USDOTNumber |-> 1, ProviderNumber |-> 1, UpdatedOn |-> 20240315,
        PhysicalState |-> 1, ZipCode |-> 1],
       [USDOTNumber |-> 2, ProviderNumber |-> 2, UpdatedOn |-> ABSENT,
        PhysicalState |-> 1, ZipCode |-> 1]>>}

MergeDatasets == SeqsUpTo(MergeRecords, MaxSnap)

\* Hand-made records for the join. In review: two providers (USDOT numbers)
\* with one ProviderNumber, and one with another. Removed: two removals of
\* ProviderNumber 1001 on different days, one of a provider never in review,
\* and one whose timestamp is no date.
JoinRecords(k) ==
    IF k = "InReview"
    THEN {[USDOTNumber |-> 11, ProviderNumber |-> 1001, UpdatedOn |-> 20240102,
           PhysicalState |-> 2, ZipCode |-> 1],
          [USDOTNumber |-> 12, ProviderNumber |-> 1001, UpdatedOn |-> 20240102,
           PhysicalState |-> 1, ZipCode |-> 1],
          [USDOTNumber |-> 13, ProviderNumber |-> 3003, UpdatedOn |-> ABSENT,
           PhysicalState |-> 1, ZipCode |-> 2]}
    ELSE {[USDOTNumber |-> ABSENT, ProviderNumber |-> 1001, UpdatedOn |-> 20240315,
           PhysicalState |-> 2, ZipCode |-> 1],
          [USDOTNumber |-> ABSENT, ProviderNumber |-> 1001, UpdatedOn |-> 20240420,
           PhysicalState |-> 1, ZipCode |-> 1],
          [USDOTNumber |-> ABSENT, ProviderNumber |-> 2002, UpdatedOn |-> 20240315,
           PhysicalState |-> 1, ZipCode |-> EMPTY],
          [USDOTNumber |-> ABSENT, ProviderNumber |-> 3003, UpdatedOn |-> 20241345,
           PhysicalState |-> 1, ZipCode |-> 2]}

JoinDatasets(k) == SeqsUpTo(JoinRecords(k), MaxSnap)

\* -------------------------------------------------------- specification
\* One script at a time, against datasets of every size class, with every
\* outcome of every request.
Next ==
    \/ \E k \in Kinds, ds \in PagedDatasets :
          runs < MaxRuns /\ NoneRunning /\ Start(k, ds)
    \/ \E k \in Kinds : TokenOk(k)
    \/ \E k \in Kinds : TokenHttpError(k)
    \/ \E k \in Kinds : TokenMissing(k)
    \/ \E k \in Kinds : FetchOk(k)
    \/ \E k \in Kinds : Fetch500(k)
    \/ \E k \in Kinds : FetchHttpError(k)
    \/ \E k \in Kinds : FetchTransportError(k)
    \/ \E k \in Kinds : SaveSnapshot(k)
    \/ \E k \in Kinds : UpdateMaster(k)

Spec == Init /\ [][Next]_vars

\* A step of the run of kind k.
RunStep(k) ==
    \/ TokenOk(k) \/ TokenHttpError(k) \/ TokenMissing(k)
    \/ FetchOk(k) \/ Fetch500(k) \/ FetchHttpError(k) \/ FetchTransportError(k)
    \/ SaveSnapshot(k) \/ UpdateMaster(k)

\* One run of either script against a dataset of any size class, with every
\* outcome of every request, the process never stopping for good: every
\* request returns or times out (timeout=30), every sleep ends.
NextLive ==
    \/ \E k \in Kinds, ds \in PagedDatasets :
          runs = 0 /\ Start(k, ds)
    \/ \E k \in Kinds : RunStep(k)

SpecLive == Init /\ [][NextLive]_vars /\ WF_vars(\E k \in Kinds : RunStep(k))

\* The run history of one script, its runs never failing: MaxMergeRuns runs
\* against any hand-made dataset, and one more against the dataset of the run
\* before it.
NextMerge ==
    \/ \E k \in Kinds, ds \in MergeDatasets :
          runs < MaxMergeRuns /\ OthersIdle(k) /\ Start(k, ds)
    \/ \E k \in Kinds : runs < MaxMergeRuns + 1 /\ Rerun(k)
    \/ \E k \in Kinds : TokenOk(k)
    \/ \E k \in Kinds : FetchOk(k)
    \/ \E k \in Kinds : SaveSnapshot(k)
    \/ \E k \in Kinds : UpdateMaster(k)

SpecMerge == Init /\ [][NextMerge]_vars

\* The run history of one script against datasets that hold records without
\* an identity.
NextKeys ==
    \/ \E k \in Kinds, ds \in KeyDatasets :
          runs < MaxMergeRuns /\ OthersIdle(k) /\ Start(k, ds)
    \/ \E k \in Kinds : runs < MaxMergeRuns + 1 /\ Rerun(k)
    \/ \E k \in Kinds : TokenOk(k)
    \/ \E k \in Kinds : FetchOk(k)
    \/ \E k \in Kinds : SaveSnapshot(k)
    \/ \E k \in Kinds : UpdateMaster(k)

SpecKeys == Init /\ [][NextKeys]_vars

\* The run history of one script whose requests succeed and whose writes may
\* fail.
NextWrite ==
    \/ \E k \in Kinds, ds \in MergeDatasets :
          runs < MaxMergeRuns /\ OthersIdle(k) /\ Start(k, ds)
    \/ \E k \in Kinds : TokenOk(k)
    \/ \E k \in Kinds : FetchOk(k)
    \/ \E k \in Kinds : SaveSnapshot(k)
    \/ \E k \in Kinds : SaveSnapshotFails(k)
    \/ \E k \in Kinds : UpdateMaster(k)
    \/ \E k \in Kinds : UpdateMasterFails(k)

SpecWrite == Init /\ [][NextWrite]_vars

\* The two scripts as two processes: a script is started whenever it is not
\* running, whatever the other one does, and the steps of the two interleave
\* in every way; the master update is taken in its two steps.
NextConc ==
    \/ \E k \in Kinds, ds \in ConcDatasets : runs < MaxConcRuns /\ Start(k, ds)
    \/ \E k \in Kinds : TokenOk(k)
    \/ \E k \in Kinds : FetchOk(k)
    \/ \E k \in Kinds : SaveSnapshot(k)
    \/ \E k \in Kinds : LoadMaster(k)
    \/ \E k \in Kinds : WriteMaster(k)

SpecConc == Init /\ [][NextConc]_vars

\* Each script run once, never failing, against every hand-made dataset of the
\* join, and the dashboard loaded at any time no script runs.
NextJoin ==
    \/ \E k \in Kinds : \E ds \in JoinDatasets(k) :
          pc[k] = "idle" /\ NoneRunning /\ Start(k, ds)
    \/ \E k \in Kinds : TokenOk(k)
    \/ \E k \in Kinds : FetchOk(k)
    \/ \E k \in Kinds : SaveSnapshot(k)
    \/ \E k \in Kinds : UpdateMaster(k)
    \/ loads < MaxLoads /\ NoneRunning /\ Dashboard

SpecJoin == Init /\ [][NextJoin]_vars

\* ===================================================================
\* Properties of the fetch (checked under Spec)
\* ===================================================================
Fetched(k) == pc[k] \in {"fetched", "reconcile"}

Ceil(n, p) == IF n % p = 0 THEN n \div p ELSE (n \div p) + 1

RECURSIVE PagesData(_, _, _)
\* The data of the successful requests reqs[1..n] against dataset ds.
PagesData(ds, reqs, n) ==
    IF n = 0 THEN << >>
    ELSE PagesData(ds, reqs, n - 1)
           \o RemotePage(ds, reqs[n], IF n = 1 THEN FIRST_LENGTH ELSE PAGE_SIZE).data

\* C1: pagination completeness. When the fetch of a run has ended without a
\* failed page, the accumulated rows are the remote dataset: every record at
\* offsets 0..N-1 once, in remote order.
C1_PaginationComplete ==
    \A k \in Kinds : Fetched(k) => all_rows[k] = remote[k]

\* C2: no partial commit. A run that ended because a page failed on all its
\* attempts has neither created nor rewritten the snapshot file or the master
\* file, and holds no rows.
C2_NoPartialCommit ==
    \A k \in Kinds :
        (pc[k] = "failed" /\ err[k] = "FetchExhausted")
            => /\ snapshot[k].version = startVer[k][1]
               /\ master[k].version = startVer[k][2]
               /\ all_rows[k] = << >>

\* C2 witness: a later page of a run is exhausted while both files of the
\* kind exist from an earlier run.
C2_Witness ==
    \E k \in Kinds :
        /\ pc[k] = "failed" /\ err[k] = "FetchExhausted"
        /\ page[k] >= 1
        /\ snapshot[k].exists /\ master[k].exists

\* C3: retry bound. No page sees more than MAX_RETRIES attempts; a further
\* attempt is only made while fewer than MAX_RETRIES have failed; after a
\* success that followed failed attempts the rows are the data of the
\* successful responses; the exhaustion error is raised by the MAX_RETRIES-th
\* failure, and the run is then over.
C3_RetryBound ==
    \A k \in Kinds :
        /\ tries[k] <= MAX_RETRIES
        /\ okAfter[k] <= MAX_RETRIES - 1
        /\ pc[k] \in {"first", "pages"} => tries[k] < MAX_RETRIES
        /\ (pc[k] \in {"pages", "fetched"})
              => all_rows[k] = PagesData(remote[k], requests[k], Len(requests[k]))
        /\ err[k] = "FetchExhausted" => (pc[k] = "failed" /\ tries[k] = MAX_RETRIES)

\* C3 witness: MAX_RETRIES - 1 answers of 500 in a row, then the success, whose
\* data the run holds.
C3_Witness ==
    \E k \in Kinds :
        /\ lastStatus[k] = 200
        /\ okAfter[k] = MAX_RETRIES - 1
        /\ pc[k] = "pages"
        /\ all_rows[k] = SubSeq(remote[k], 1, FIRST_LENGTH)

\* C7: a 4xx answer is fatal at once: whenever the latest answer of a run is
\* a 4xx, the run has failed.
C7_ClientErrorFatal ==
    \A k \in Kinds : lastStatus[k] = 404 => pc[k] = "failed"

\* C8 as stated: a run without failures issues exactly ceil(N/P) successful
\* page requests, at offsets 0, P, 2P, ...
C8_RequestCount ==
    \A k \in Kinds :
        Fetched(k) =>
            /\ Len(requests[k]) = Ceil(Len(remote[k]), PAGE_SIZE)
            /\ \A i \in 1..Len(requests[k]) : requests[k][i] = (i - 1) * PAGE_SIZE

\* C8 amended: the first request is always issued, so the count is
\* max(1, ceil(N/P)); the offsets are 0, P, 2P, ... in increasing order.
C8_RequestCountAmended ==
    \A k \in Kinds :
        Fetched(k) =>
            /\ Len(requests[k]) = Max(1, Ceil(Len(remote[k]), PAGE_SIZE))
            /\ \A i \in 1..Len(requests[k]) : requests[k][i] = (i - 1) * PAGE_SIZE

\* C8 witness: the fetch of an empty dataset has ended after one request, and
\* that of a dataset of more than one page after ceil(N/P) requests.
C8_Witness ==
    \E k \in Kinds :
        /\ Fetched(k)
        /\ Len(remote[k]) = PAGE_SIZE + 1
        /\ requests[k] = <<0, PAGE_SIZE>>

\* C13: a bootstrap page without the token field is fatal before any data
\* request. A run that ended with the token-not-found error has failed, has
\* sent no page request (no page fetched, no attempt failed, no answer
\* received) and has written neither the snapshot file nor the master file.
C13_TokenFatal ==
    \A k \in Kinds :
        err[k] = "TokenNotFound" =>
            /\ pc[k] = "failed"
            /\ page[k] = 0 /\ tries[k] = 0 /\ lastStatus[k] = 0
            /\ snapshot[k].version = startVer[k][1]
            /\ master[k].version = startVer[k][2]

\* C13 witness: a run found no token while both files of the kind exist from
\* an earlier run.
C13_Witness ==
    \E k \in Kinds :
        /\ err[k] = "TokenNotFound"
        /\ snapshot[k].exists /\ master[k].exists
        /\ Len(master[k].rows) >= 1

\* ===================================================================
\* Properties of the reconciliation (checked under SpecMerge)
\* ===================================================================
Reconciles(k) == pc[k] = "reconcile" /\ pc'[k] = "done"

\* C4: idempotent merge. A run that reconciles the snapshot the run before it
\* reconciled (the master file written and read back in between) adds no
\* record and leaves the rows of the master file as they were.
C4_IdempotentMerge ==
    [][\A k \in Kinds :
          (Reconciles(k) /\ repeated[k] /\ all_rows[k] = lastSnap[k])
              => /\ added'[k] = 0
                 /\ LoadRows(master'[k]) = LoadRows(master[k])]_vars

\* C4 witness: the second reconciliation of a snapshot of two records has
\* ended, against a master file that held a record before the first.
C4_Witness ==
    \E k \in Kinds :
        /\ pc[k] = "done" /\ repeated[k]
        /\ Len(lastSnap[k]) = 2
        /\ Len(master[k].rows) >= 2
        /\ master[k].rows[1][KeyField(k)] # lastSnap[k][1][KeyField(k)]
        /\ added[k] = 0

\* C5: master uniqueness. The master file never holds two rows with the same
\* identity key.
C5_MasterUnique ==
    \A k \in Kinds :
        \A i, j \in 1..Len(master[k].rows) :
            i # j => master[k].rows[i][KeyField(k)] # master[k].rows[j][KeyField(k)]

\* C6: monotone ledger. No step removes the master file, and every row of the
\* master file is after the step where it was, with the same value in every
\* column the file had.
C6_MonotoneLedger ==
    [][\A k \in Kinds :
          /\ master[k].exists => master'[k].exists
          /\ \A i \in 1..Len(master[k].rows) :
                /\ i <= Len(master'[k].rows)
                /\ \A f \in Fieldnames(master[k].rows) :
                      master'[k].rows[i][f] = master[k].rows[i][f]]_vars

\* C6 witness: a run has appended to a master file that held a row, and the
\* column the new row brought is empty in the old one.
C6_Witness ==
    \E k \in Kinds :
        /\ pc[k] = "done"
        /\ added[k] >= 1
        /\ Len(master[k].rows) > added[k]
        /\ master[k].version >= 2
        /\ master[k].rows[1]["UpdatedOn"] = EMPTY

\* ===================================================================
\* Properties of the transfer join (checked under SpecJoin)
\* ===================================================================
RowOf(o) == [f \in Fields |-> o[f]]

InReviewNumbers == {loaded[1][i]["ProviderNumber"] : i \in 1..Len(loaded[1])}

\* C9: transfer annotation. Every row of the Removed master file is in the
\* annotated frame, and a row of the frame carries the year-month of its own
\* UpdatedOn (when that is a date) if its ProviderNumber is in the InReview
\* master file, and an empty transfer month if it is not.
C9_TransferAnnotation ==
    dash = "ok" =>
        /\ \A j \in 1..Len(loaded[2]) :
              \E i \in 1..Len(df_rm) : RowOf(df_rm[i]) = loaded[2][j]
        /\ \A i \in 1..Len(df_rm) :
              IF df_rm[i]["ProviderNumber"] \in InReviewNumbers
              THEN IsDate(df_rm[i]["UpdatedOn"])
                     => df_rm[i]["TransferMonth"] = df_rm[i]["UpdatedOn"] \div 100
              ELSE df_rm[i]["TransferMonth"] = EMPTY

Perms(n) == {p \in [1..n -> 1..n] : \A a, b \in 1..n : p[a] = p[b] => a = b}
Permute(rows, p) == [i \in 1..Len(rows) |-> rows[p[i]]]
BagOf(rows) ==
    [x \in {rows[i] : i \in 1..Len(rows)} |->
        Cardinality({i \in 1..Len(rows) : rows[i] = x})]

\* However the rows of the two files are ordered, the annotated rows are the
\* same, each as often.
OrderIndependent ==
    dash = "ok" =>
        \A p \in Perms(Len(loaded[1])), q \in Perms(Len(loaded[2])) :
            BagOf(RemovedFrame(Permute(loaded[1], p), Permute(loaded[2], q)))
                = BagOf(df_rm)

\* A load of the dashboard writes no file, and a load that reads what the load
\* before it read shows the same frame.
RerunSame ==
    loads' = loads + 1 =>
        /\ master' = master /\ snapshot' = snapshot
        /\ reloaded' => df_rm' = df_rm

\* C10: the transfer join is order-independent and idempotent.
C10_JoinStable == []OrderIndependent /\ [][RerunSame]_vars

\* C10 witness: the dashboard was loaded a second time on the same files, two
\* rows in each, the removed rows different, and a row carries a month.
C10_Witness ==
    /\ dash = "ok" /\ reloaded /\ loads = 2
    /\ Len(loaded[1]) = 2 /\ Len(loaded[2]) = 2
    /\ loaded[2][1] # loaded[2][2]
    /\ \E i \in 1..Len(df_rm) : df_rm[i]["TransferMonth"] \notin {EMPTY, NAT}

\* ===================================================================
\* Properties of records without identity (checked under SpecKeys)
\* ===================================================================
\* The record has an identity: the field is there and is not "".
HasKey(k, r) == r[KeyField(k)] \notin {ABSENT, EMPTY}

\* No row of a master file lacks its identity.
MasterKeyed ==
    \A k \in Kinds :
        \A i \in 1..Len(master[k].rows) : HasKey(k, master[k].rows[i])

\* The reconciliation of a run ends the run without error, and every identity
\* of the snapshot is then in the master file.
ReconcilesTheRest ==
    \A k \in Kinds :
        (pc[k] = "reconcile" /\ pc'[k] # "reconcile") =>
            /\ pc'[k] = "done" /\ err'[k] = "none"
            /\ \A i \in 1..Len(all_rows[k]) :
                  HasKey(k, all_rows[k][i]) =>
                      \E j \in 1..Len(master'[k].rows) :
                          master'[k].rows[j][KeyField(k)] = all_rows[k][i][KeyField(k)]

\* C11: a snapshot record whose identity field is absent or empty is skipped:
\* it never gets into the master file, the other records of the snapshot are
\* reconciled, and the run completes.
C11_KeylessSkipped == []MasterKeyed /\ [][ReconcilesTheRest]_vars

\* C11 witness: a run has reconciled a snapshot of a record without identity
\* followed by one with, and the master file holds the one.
C11_Witness ==
    \E k \in Kinds :
        /\ pc[k] = "done" /\ Len(lastSnap[k]) = 2
        /\ ~HasKey(k, lastSnap[k][1])
        /\ HasKey(k, lastSnap[k][2])
        /\ added[k] = 1 /\ Len(master[k].rows) = 1

\* ===================================================================
\* Properties of the artifact writes
\* ===================================================================
\* C12 (checked under SpecMerge): a reconciliation that adds no record leaves
\* the master file untouched: not created, not rewritten.
C12_WriteOnlyIfAdded ==
    [][\A k \in Kinds :
          (Reconciles(k) /\ added'[k] = 0) => master'[k] = master[k]]_vars

\* C14 (checked under SpecMerge): a snapshot file, once written, keeps its
\* content: no later step, of a later run on the same capture date included,
\* changes its rows.
C14_SnapshotImmutable ==
    [][\A k \in Kinds :
          snapshot[k].exists =>
              (snapshot'[k].exists /\ snapshot'[k].rows = snapshot[k].rows)]_vars

\* C15 (checked under SpecWrite): writes are all-or-nothing. A step that
\* changes the snapshot file or the master file leaves in it the complete rows
\* the run was writing, whether the write ended or failed on its way.
C15_AtomicWrites ==
    [][\A k \in Kinds :
          /\ snapshot'[k].rows # snapshot[k].rows
                => snapshot'[k].rows = CsvRows(all_rows[k])
          /\ master'[k].rows # master[k].rows
                => master'[k].rows =
                     CsvRows(LoadRows(master[k])
                               \o NewRows(k, all_rows[k],
                                          ExistingIds(k, LoadRows(master[k]))))]_vars

\* C16 (checked under Spec): writing no record is a no-op. A run that fetched
\* an empty snapshot and completed has neither created nor rewritten the
\* snapshot file or the master file.
C16_EmptyWriteNoOp ==
    \A k \in Kinds :
        (pc[k] = "done" /\ lastSnap[k] = << >>)
            => /\ snapshot[k].version = startVer[k][1]
               /\ master[k].version = startVer[k][2]

\* ===================================================================
\* Further properties of the transfer join (checked under SpecJoin)
\* ===================================================================
\* C17: a removed row whose ProviderNumber is in review and whose update
\* timestamp is absent or is no date carries the empty transfer month, the
\* value a row without a match carries.
C17_UnparsedStaysEmpty ==
    dash = "ok" =>
        \A i \in 1..Len(df_rm) :
            (df_rm[i]["ProviderNumber"] \in InReviewNumbers
               /\ ~IsDate(df_rm[i]["UpdatedOn"]))
                => df_rm[i]["TransferMonth"] = EMPTY

\* C19: the annotation keeps the rows of the Removed master file one for one:
\* the annotated frame has as many rows as the file, and each row of the file
\* is in it as often as in the file.
C19_RowsPreserved ==
    dash = "ok" =>
        /\ Len(df_rm) = Len(loaded[2])
        /\ BagOf([i \in 1..Len(df_rm) |-> RowOf(df_rm[i])]) = BagOf(loaded[2])

\* ===================================================================
\* Properties of the two pipelines side by side (checked under SpecConc)
\* ===================================================================
\* A step in which the script of kind k does not move changes neither its
\* files nor what it holds in memory.
NonInterference ==
    \A k \in Kinds :
        pc'[k] = pc[k] =>
            /\ snapshot'[k] = snapshot[k] /\ master'[k] = master[k]
            /\ all_rows'[k] = all_rows[k] /\ master_read'[k] = master_read[k]
            /\ added'[k] = added[k]

\* The write of the master file leaves what a run with nothing in between
\* leaves: the file it read is the file it writes over.
AsIfAlone ==
    \A k \in Kinds :
        (pc[k] = "loaded" /\ pc'[k] = "done") =>
            LET rows_read == LoadRows(master[k])
                new_rows == NewRows(k, all_rows[k], ExistingIds(k, rows_read))
            IN /\ master'[k] = MasterAfter(k, master[k], rows_read, new_rows)
               /\ added'[k] = Len(new_rows)

\* C18: the two pipelines share no mutable state. However the steps of an
\* InReview run and a Removed run interleave, no step of the one changes the
\* files or the memory of the other, and each leaves the files it would leave
\* running alone.
C18_PipelinesIndependent == [][NonInterference /\ AsIfAlone]_vars

\* C18 witness: both scripts have read their master file and neither has
\* written it yet; the one reads the file of an earlier run, the other has
\* rows to add.
C18_Witness ==
    \E k, j \in Kinds :
        /\ k # j
        /\ pc[k] = "loaded" /\ pc[j] = "loaded"
        /\ master_read[k] # << >>
        /\ all_rows[k] # << >> /\ all_rows[j] # << >>

\* ===================================================================
\* Termination (checked under SpecLive)
\* ===================================================================
\* The pages a run may ask for: max(1, ceil(recordsTotal / PAGE_SIZE)).
PageBudget(k) == Max(1, Ceil(Len(remote[k]), PAGE_SIZE))

\* A request is only sent as attempt number tries + 1 <= MAX_RETRIES of page
\* number Len(requests) + 1 <= PageBudget: at most MAX_RETRIES * PageBudget
\* attempts in a run.
AttemptsBounded ==
    \A k \in Kinds :
        /\ pc[k] \in {"first", "pages"} =>
              /\ tries[k] + 1 <= MAX_RETRIES
              /\ Len(requests[k]) + 1 <= PageBudget(k)
        /\ Fetched(k) => Len(requests[k]) <= PageBudget(k)

\* A run that was started comes to its end, completed or failed.
RunEnds == (\E k \in Kinds : pc[k] = "token") ~> NoneRunning

\* C20: every run terminates, after at most MAX_RETRIES attempts for each of
\* at most max(1, ceil(recordsTotal / PAGE_SIZE)) pages, whatever the service
\* answers.
C20_RunTerminates == []AttemptsBounded /\ RunEnds

\* C20 witness: the last page of a dataset of more than one page is about to
\* see its last attempt, after failures of every kind.
C20_Witness ==
    \E k \in Kinds :
        /\ pc[k] = "pages"
        /\ tries[k] = MAX_RETRIES - 1
        /\ Len(requests[k]) + 1 = PageBudget(k)
        /\ PageBudget(k) >= 2
        /\ streak500[k] = 1 /\ lastStatus[k] = 500

====
